---- MODULE Spec2Model ----
(***************************************************************************)
(* State-machine model of github.com/dworthen/updater (updater.go).        *)
(*                                                                         *)
(* Strings are sequences of one-character strings, file contents are       *)
(* sequences of bytes, the filesystem is the file at the executable path   *)
(* plus the files of the system temp directory, and the network is the     *)
(* log of the HTTP requests that went out on the wire.                     *)
(***************************************************************************)
EXTENDS Integers, Sequences, FiniteSets, TLC

(***************************************************************************)
(* Bounds of the model.                                                    *)
(***************************************************************************)
\* longest archive (number of entries) the server publishes
MaxEntries == 2
\* most redirects the server answers the requests of one invocation with
MaxRedirects == 1

(***************************************************************************)
(* Strings.                                                                *)
(***************************************************************************)
Whitespace == {" ", "\t", "\n"}

RECURSIVE TrimLeft(_)
TrimLeft(s) ==
    IF s # <<>> /\ Head(s) \in Whitespace THEN TrimLeft(Tail(s)) ELSE s

RECURSIVE TrimRight(_)
TrimRight(s) ==
    IF s # <<>> /\ s[Len(s)] \in Whitespace
    THEN TrimRight(SubSeq(s, 1, Len(s) - 1))
    ELSE s

\* strings.TrimSpace
TrimSpace(s) == TrimRight(TrimLeft(s))

LowerOf(c) ==
    CASE c = "Z" -> "z"
      [] c = "I" -> "i"
      [] c = "P" -> "p"
      [] c = "T" -> "t"
      [] c = "A" -> "a"
      [] c = "R" -> "r"
      [] c = "G" -> "g"
      [] OTHER   -> c

\* strings.ToLower
ToLower(s) == [i \in 1..Len(s) |-> LowerOf(s[i])]

\* strings.HasSuffix
HasSuffix(s, suffix) ==
    /\ Len(s) >= Len(suffix)
    /\ SubSeq(s, Len(s) - Len(suffix) + 1, Len(s)) = suffix

Slash == <<"/">>
DotTarGz == <<".", "t", "a", "r", ".", "g", "z">>
DotZip == <<".", "z", "i", "p">>
DotExe == <<".", "e", "x", "e">>
Windows == <<"w", "i", "n", "d", "o", "w", "s">>
Linux == <<"l", "i", "n", "u", "x">>
FreeBSD == <<"f", "r", "e", "e", "b", "s", "d">>
Amd64 == <<"a", "m", "d", "6", "4">>
Arm64 == <<"a", "r", "m", "6", "4">>

\* published labels used by the manifests of the model
LabelL == <<"L">>
LabelW == <<"W">>
LabelX == <<"X">>
X64 == <<"x", "6", "4">>
A64 == <<"a", "6", "4">>

(***************************************************************************)
(* Errors and return values.                                               *)
(***************************************************************************)
\* an error value: its kind, the status code it carries (0: none) and the
\* text it names (the platform, the archive, ...)
Err(kind, code, info) == [kind |-> kind, code |-> code, info |-> info]
Nil == Err("nil", 0, <<>>)

\* NotSupportedError{Platform}
NotSupportedError(platform) == Err("NotSupported", 0, platform)

\* The paths an error of package os names in its text.  ExePath is the path
\* os.Executable() returns, TempPath(i) the i-th uuid name of the temp
\* directory.  *os.PathError (open, write, chmod, remove) names the one path
\* of the call, *os.LinkError (rename) names the old and the new path.
ExePath == "exe"
TempPath(i) == ToString(i)
PathError(kind, path) == Err(kind, 0, <<path>>)
LinkError(old, new) == Err("Rename", 0, <<old, new>>)

(***************************************************************************)
(* The manifest and platform resolution.                                   *)
(*                                                                         *)
(* A template is a sequence of tokens: a one-character string is literal   *)
(* text, "{{.Os}}" ... "{{.Ext}}" are the fields of `variables`,           *)
(* "{{.Bogus}}" is a field `variables` does not have (Execute fails) and   *)
(* "{{" is an action that is never closed (Parse fails).                   *)
(***************************************************************************)
\* template.Parse
ParseFails(tmpl) == \E i \in 1..Len(tmpl) : tmpl[i] = "{{"

\* template.Execute fails on a field the data does not have
ExecuteFails(tmpl) == \E i \in 1..Len(tmpl) : tmpl[i] = "{{.Bogus}}"

RenderToken(tok, vars) ==
    CASE tok = "{{.Os}}"         -> vars.Os
      [] tok = "{{.Arch}}"       -> vars.Arch
      [] tok = "{{.ArchiveExt}}" -> vars.ArchiveExt
      [] tok = "{{.Ext}}"        -> vars.Ext
      [] OTHER                   -> <<tok>>

\* template.Execute into a buffer, then buf.String()
RECURSIVE Render(_, _)
Render(tmpl, vars) ==
    IF tmpl = <<>> THEN <<>>
    ELSE RenderToken(Head(tmpl), vars) \o Render(Tail(tmpl), vars)

\* the three values GetDownloadInfo returns
DownloadInfo(archiveName, binaryName, err) ==
    [archiveName |-> archiveName, binaryName |-> binaryName, err |-> err]

\* fmt.Sprintf("%s/%s", os, arch)
Platform(os, arch) == os \o Slash \o arch

\* an archive extension that does not look at the os
ArchiveExtAlwaysTarGz(os) == DotTarGz

\* archiveExt := ".tar.gz", ext := ""; on windows ".zip" and ".exe"
ArchiveExtOf(os) == IF os = Windows THEN DotZip ELSE DotTarGz
ExtOf(os) == IF os = Windows THEN DotExe ELSE <<>>

\* the archive name of GetDownloadInfo, once the variables are known
ArchiveNameOf(manifest, vars) ==
    IF TrimSpace(manifest.Archive) # <<>>
    THEN Render(manifest.Archive, vars)
    ELSE <<>>

\* the tail of GetDownloadInfo: both templates parsed and executed
RenderNames(manifest, vars) ==
    IF /\ TrimSpace(manifest.Archive) # <<>>
       /\ (ParseFails(manifest.Archive) \/ ExecuteFails(manifest.Archive))
    THEN DownloadInfo(<<>>, <<>>, Err("Template", 0, <<>>))
    ELSE IF ParseFails(manifest.Binary) \/ ExecuteFails(manifest.Binary)
    THEN DownloadInfo(<<>>, <<>>, Err("Template", 0, <<>>))
    ELSE DownloadInfo(ArchiveNameOf(manifest, vars),
                      Render(manifest.Binary, vars), Nil)

\* a resolution that looks the arch map up by the runtime name of the os
ResolveByRuntimeOs(manifest, os, arch) ==
    IF os \notin DOMAIN manifest.Os \/ os \notin DOMAIN manifest.Arch
    THEN DownloadInfo(<<>>, <<>>, NotSupportedError(Platform(os, arch)))
    ELSE IF arch \notin DOMAIN manifest.Arch[os]
    THEN DownloadInfo(<<>>, <<>>, NotSupportedError(Platform(os, arch)))
    ELSE RenderNames(manifest,
                     [Os         |-> manifest.Os[os],
                      Arch       |-> manifest.Arch[os][arch],
                      ArchiveExt |-> ArchiveExtOf(os),
                      Ext        |-> ExtOf(os)])

\* the lookups of GetDownloadInfo: os map, then the arch map of the
\* published os label, then the arch
Resolve(manifest, os, arch) ==
    IF os \notin DOMAIN manifest.Os
    THEN DownloadInfo(<<>>, <<>>, NotSupportedError(Platform(os, arch)))
    ELSE IF manifest.Os[os] \notin DOMAIN manifest.Arch
    THEN DownloadInfo(<<>>, <<>>, NotSupportedError(Platform(os, arch)))
    ELSE IF arch \notin DOMAIN manifest.Arch[manifest.Os[os]]
    THEN DownloadInfo(<<>>, <<>>, NotSupportedError(Platform(os, arch)))
    ELSE RenderNames(manifest,
                     [Os         |-> manifest.Os[os],
                      Arch       |-> manifest.Arch[manifest.Os[os]][arch],
                      ArchiveExt |-> ArchiveExtOf(os),
                      Ext        |-> ExtOf(os)])

\* a resolution that falls back to the runtime names of an unmapped platform
GetDownloadInfoFallback(manifest, os, arch) ==
    IF TrimSpace(manifest.Binary) = <<>>
    THEN DownloadInfo(<<>>, <<>>, Err("NoBinaryName", 0, <<>>))
    ELSE IF Resolve(manifest, os, arch).err.kind = "NotSupported"
    THEN RenderNames(manifest,
                     [Os |-> os, Arch |-> arch,
                      ArchiveExt |-> ArchiveExtOf(os), Ext |-> ExtOf(os)])
    ELSE Resolve(manifest, os, arch)

\* func (manifest *UpdaterManifest) GetDownloadInfo(), with runtime.GOOS and
\* runtime.GOARCH as parameters
GetDownloadInfo(manifest, os, arch) ==
    IF TrimSpace(manifest.Binary) = <<>>
    THEN DownloadInfo(<<>>, <<>>, Err("NoBinaryName", 0, <<>>))
    ELSE Resolve(manifest, os, arch)

(***************************************************************************)
(* Files.  A file is its bytes and its permission bits; the bytes of an    *)
(* archive are the codes of its entries, in container order.               *)
(***************************************************************************)
File(data, mode) == [exists |-> TRUE, data |-> data, mode |-> mode]
NoFile == [exists |-> FALSE, data |-> <<>>, mode |-> 0]

\* the owner-execute bit (0100) of a mode
OwnerExec(mode) == (mode \div 64) % 2 = 1

\* the running executable before the update, mode 0755
OldBin == <<0>>
Octal(u, g, o) == u * 64 + g * 8 + o
OldMode == Octal(7, 5, 5)
\* a permission argument that carries the owner's execute bit
WriteFilePermExec == Octal(7, 4, 4)

\* os.WriteFile(binaryPath, responseBody, 0644) and os.WriteFile(tempFile, ...)
WriteFilePerm == Octal(6, 4, 4)
\* os.Create: 0666 before umask
CreatePerm == Octal(6, 6, 6)
\* os.Chmod(binaryPath, 0744)
ChmodMode == Octal(7, 4, 4)

\* the prefixes of a byte sequence: what a write that fails may leave behind
Prefixes(data) == {SubSeq(data, 1, n) : n \in 0..Len(data)}

(***************************************************************************)
(* Archives.  Entry codes 11.. index EntryTable; BadEntry is an entry the  *)
(* reader cannot read (tar: Next() fails there; zip: f.Open() fails        *)
(* there); Garbage is a body that is no gzip stream and no zip file.       *)
(***************************************************************************)
NameT == <<"t">>
NameTExe == <<"t", ".", "e", "x", "e">>
NameUpperT == <<"T">>
NameDir == <<"d">>

BodyA == <<1, 2>>
BodyB == <<3>>

Entry(name, type, body) == [Name |-> name, Type |-> type, Body |-> body]

\* a name is its path components; a directory entry "t/" has the components
\* of "t", as filepath.Base drops trailing separators
EntryTable ==
    << Entry(<<NameDir, NameT>>, "reg", BodyA),
       Entry(<<NameT>>, "reg", BodyB),
       Entry(<<NameT>>, "dir", <<>>),
       Entry(<<NameUpperT>>, "reg", BodyB),
       Entry(<<NameDir, NameTExe>>, "reg", BodyA),
       Entry(<<NameT>>, "symlink", <<>>) >>

EntryCode(i) == 10 + i
BadEntry == EntryCode(Len(EntryTable) + 1)
Garbage == <<9>>
EntryCodes == {EntryCode(i) : i \in 1..Len(EntryTable)} \cup {BadEntry}

EntryOf(code) == EntryTable[code - 10]

\* filepath.Base of an entry name
Base(name) == IF name = <<>> THEN <<".">> ELSE name[Len(name)]

SeqsUpTo(S, n) == UNION {[1..k -> S] : k \in 0..n}
Archives == SeqsUpTo(EntryCodes, MaxEntries) \cup {Garbage}

\* whether the container itself opens (gzip.NewReader, zip.OpenReader)
Readable(bytes) == \A i \in 1..Len(bytes) : bytes[i] \in EntryCodes

\* the bodies the server may publish for a bare binary
BinBodies == {BodyA, BodyB}

(***************************************************************************)
(* The inputs: configurations, manifests, platforms.                       *)
(***************************************************************************)
\* what url.Parse makes of a URL text: whether it parses, its scheme, its host
\* and the elements of its path
Url(parses, scheme, host, path) ==
    [parses |-> parses, scheme |-> scheme, host |-> host, path |-> path]

\* BaseUrl: https://h, http://h, https:///x (no host), h/x (relative), and a
\* text url.Parse rejects
BaseUrls ==
    { Url(TRUE, "https", "h", <<>>), Url(TRUE, "http", "h", <<>>),
      Url(TRUE, "https", "", <<>>), Url(TRUE, "", "", <<>>),
      Url(FALSE, "", "", <<>>) }

\* UpdaterConfig: the name of the manifest file
ManifestFile == <<"m", ".", "j", "s", "o", "n">>

V1 == <<"1">>
V2 == <<"2">>
CurrentVersions == { V1, <<" ", "1", "\n">>, V2, <<" ">>, <<>> }
ManifestVersions == { V1, <<"1", " ">>, <<"\t", "2">> }

Config(currentVersion, baseUrl) ==
    [CurrentVersion |-> currentVersion, BaseUrl |-> baseUrl]

Manifest(version, archive, binary, os, arch) ==
    [Version |-> version, Archive |-> archive, Binary |-> binary,
     Os |-> os, Arch |-> arch]
\* the zero value of UpdaterManifest
NoManifest == Manifest(<<>>, <<>>, <<>>, <<>>, <<>>)

ArchiveTemplates ==
    { <<>>,
      <<"a", "{{.ArchiveExt}}">>,
      <<"{{.Os}}", "{{.Arch}}", "{{.ArchiveExt}}">>,
      <<"a", ".", "Z", "I", "P">>,
      <<"a", ".", "r", "a", "r">>,
      <<"{{.Ext}}">>,
      <<"a", "{{">> }

BinaryTemplates ==
    { <<"t", "{{.Ext}}">>, <<"{{.Ext}}">>, <<" ">>, <<>>, <<"{{.Bogus}}">> }

OsMaps ==
    { <<>>,
      (Linux :> LabelL) @@ (Windows :> LabelW),
      (Linux :> LabelX) @@ (Windows :> LabelW) }

ArchMaps ==
    { <<>>,
      (LabelL :> (Amd64 :> X64)) @@ (LabelW :> (Amd64 :> X64)),
      \* keyed by the runtime name of the os as well as by published labels
      (Linux :> (Amd64 :> X64)) @@ (LabelX :> (Amd64 :> A64))
        @@ (LabelW :> (Amd64 :> X64 @@ Arm64 :> A64)) }

\* the documents the server may publish as the manifest
Manifests ==
    { Manifest(V2, a, b, o, r) :
        a \in ArchiveTemplates, b \in BinaryTemplates, o \in OsMaps, r \in ArchMaps }
    \cup
    { Manifest(v, <<>>, <<"t">>, <<>>, <<>>) : v \in ManifestVersions }

\* runtime.GOOS / runtime.GOARCH
Platforms ==
    { <<Linux, Amd64>>, <<Linux, Arm64>>, <<Windows, Amd64>>, <<FreeBSD, Amd64>> }

(***************************************************************************)
(* The state.                                                              *)
(***************************************************************************)
VARIABLES
    exe,     \* the file at the path os.Executable() returns
    tmp,     \* the files of os.TempDir(): tmp[i] is the file named by the
             \* i-th name uuid.NewString() returned
    wire,    \* the HTTP exchanges so far: each request with the answer it got
    goos,    \* runtime.GOOS
    goarch,  \* runtime.GOARCH
    server,  \* which server is behind BaseUrl: see Serves
    proc     \* the invocations: proc[p] holds the Updater, the locals and the
             \* position of invocation p

vars == <<exe, tmp, wire, goos, goarch, server, proc>>

Procs == DOMAIN proc

InitProc(op, config) ==
    [ op           |-> op,
      pc           |-> IF op = "Check" THEN "check" ELSE "gm_url",
      config       |-> config,
      \* the request being made
      kind         |-> "none",
      url          |-> Url(TRUE, "", "", <<>>),
      redirects    |-> 0,
      \* locals of Update
      manifest     |-> NoManifest,
      info         |-> DownloadInfo(<<>>, <<>>, Nil),
      \* fields of Updater
      archiveName  |-> <<>>,
      binaryName   |-> <<>>,
      \* locals of downloadBinary, downloadArchive, extractZip, extractTarball
      responseBody |-> <<>>,
      tempFile     |-> 0,
      format       |-> "none",
      entries      |-> <<>>,
      idx          |-> 0,
      path         |-> 0,
      tempPath     |-> 0,
      created      |-> FALSE,
      \* how often this invocation renamed the executable away
      renames      |-> 0,
      \* the values returned
      err          |-> Nil,
      avail        |-> FALSE,
      newVersion   |-> <<>> ]

\* the Update() invocations start with a fixed CurrentVersion, which Update()
\* never reads
Configs(op) ==
    { Config(v, u) :
        v \in (IF op = "Check" THEN CurrentVersions ELSE {V1}), u \in BaseUrls }

\* what the server answers: a status code and, on a redirect, the scheme of
\* the Location it names ("" when it names none); code 0 is a transport error
StatusCodes == {200, 302, 404}
Answer(code, loc) == [code |-> code, loc |-> loc]
Answers ==
    { Answer(c, "") : c \in StatusCodes \cup {0} }
    \cup { Answer(302, l) : l \in {"https", "http"} }

\* a server: the sets its answers and documents are taken from
Server(answers, manifests, bodies, archives) ==
    [ answers |-> answers, manifests |-> manifests, bodies |-> bodies,
      archives |-> archives ]

\* The servers of the model.  "any" answers and publishes anything above.
\* "release" is a server in good order: it answers 200, its manifest maps
\* linux/amd64 and names a bare binary, a tar.gz or a zip (the manifest may
\* change between two fetches), and its archives hold the binary, once or
\* twice.
ReleaseManifests ==
    { Manifest(V2, a, <<"t", "{{.Ext}}">>, Linux :> LabelL,
               LabelL :> (Amd64 :> X64)) :
        a \in { <<>>, <<"a", "{{.ArchiveExt}}">>, <<"a", ".", "Z", "I", "P">> } }

Serves(s) ==
    IF s = "any" THEN Server(Answers, Manifests, BinBodies, Archives)
    ELSE Server({Answer(200, "")}, ReleaseManifests, {BodyA},
                {<<EntryCode(2)>>, <<EntryCode(1), EntryCode(2)>>})

Init ==
    /\ exe = File(OldBin, OldMode)
    /\ tmp = <<>>
    /\ wire = <<>>
    /\ \E pl \in Platforms : goos = pl[1] /\ goarch = pl[2]
    /\ server = "any"
    /\ \E op \in {"Check", "Update"} :
         \E c \in Configs(op) : proc = << InitProc(op, c) >>

Set(p, r) == proc' = [proc EXCEPT ![p] = r]
\* a return with an error
Ret(r, err) == [r EXCEPT !.pc = "done", !.err = err]
Done(p) == proc[p].pc = "done"
Succeeded(p) == Done(p) /\ proc[p].err = Nil

(***************************************************************************)
(* HTTP.                                                                   *)
(***************************************************************************)
\* url.JoinPath(base, elem)
JoinPath(base, elem) == [base EXCEPT !.path = Append(@, elem)]

\* func validateUrl
validateUrl(u) ==
    IF ~u.parses THEN Err("UrlParse", 0, <<>>)
    ELSE IF u.scheme # "https" THEN Err("Scheme", 0, <<>>)
    ELSE IF u.host = "" THEN Err("Host", 0, <<>>)
    ELSE Nil

\* url.JoinPath, validateUrl and http.NewRequest, as GetManifest,
\* downloadBinary and downloadArchive run them: the error, or Nil
RequestError(base, elem) ==
    IF ~base.parses THEN Err("UrlParse", 0, <<>>)
    ELSE validateUrl(JoinPath(base, elem))

\* the zero http.Client follows a redirect that names a Location
Followed(ans) == ans.code = 302 /\ ans.loc # ""
RedirectTarget(ans) == Url(TRUE, ans.loc, "r", <<>>)

\* no status check at all
StatusOkAny(code) == TRUE

\* a status check that lets every code below 400 pass
StatusOkBelow400(code) == code < 400

\* the check each fetch makes of resp.StatusCode
StatusOk(code) == code = 200

Exchange(p, r, ans) ==
    [ by |-> p, kind |-> r.kind, method |-> "GET", scheme |-> r.url.scheme,
      host |-> r.url.host, path |-> r.url.path, code |-> ans.code,
      loc |-> ans.loc ]

\* httpClient.Do(request) and the status check after it, one request on the
\* wire per step.  Gives the record of the invocation after the step, with
\* pc "got" when a 200 answer is in hand.
AfterDo(r, ans) ==
    IF ans.code = 0 THEN Ret(r, Err("Transport", 0, <<>>))
    ELSE IF Followed(ans)
    THEN [r EXCEPT !.url = RedirectTarget(ans), !.redirects = @ + 1]
    ELSE IF ~StatusOk(ans.code) THEN Ret(r, Err("Status", ans.code, <<>>))
    ELSE [r EXCEPT !.pc = "got"]

\* the answers the model lets the server give: it stops redirecting once
\* MaxRedirects redirects were followed
Offered(r) ==
    { ans \in Serves(server).answers : Followed(ans) => r.redirects < MaxRedirects }

(***************************************************************************)
(* GetManifest, CheckForAvailableUpdate.                                   *)
(***************************************************************************)
\* GetManifest up to http.NewRequest
GetManifestUrl(p) ==
    LET r == proc[p]
        e == RequestError(r.config.BaseUrl, ManifestFile) IN
    /\ r.pc = "gm_url"
    /\ Set(p, IF e # Nil THEN Ret(r, e)
              ELSE [r EXCEPT !.pc = "gm_do", !.kind = "manifest",
                             !.url = JoinPath(r.config.BaseUrl, ManifestFile)])
    /\ UNCHANGED <<exe, tmp, wire, goos, goarch, server>>

\* where GetManifest returns to
AfterManifest(r) == IF r.op = "Check" THEN "check_cmp" ELSE "gdi"

\* GetManifest from httpClient.Do on: io.ReadAll may fail, the body may be no
\* JSON document (json false), and else it decodes to one of Manifests
GetManifestDo(p) ==
    LET r == proc[p] IN
    /\ r.pc = "gm_do"
    /\ \E ans \in Offered(r) :
         LET d == AfterDo(r, ans) IN
         /\ wire' = Append(wire, Exchange(p, r, ans))
         /\ IF d.pc # "got" THEN Set(p, d)
            ELSE \E read \in BOOLEAN, json \in BOOLEAN, m \in Serves(server).manifests :
                   Set(p, IF ~read THEN Ret(d, Err("Read", 0, <<>>))
                          ELSE IF ~json THEN Ret(d, Err("Json", 0, <<>>))
                          ELSE [d EXCEPT !.pc = AfterManifest(d), !.manifest = m])
    /\ UNCHANGED <<exe, tmp, goos, goarch, server>>

\* a comparison of the versions as they are, not trimmed
VersionsDifferRaw(currentVersion, manifestVersion) ==
    currentVersion # manifestVersion

\* the comparison of CheckForAvailableUpdate
VersionsDiffer(currentVersion, manifestVersion) ==
    TrimSpace(currentVersion) # TrimSpace(manifestVersion)

\* CheckForAvailableUpdate up to the call of GetManifest
CheckStart(p) ==
    LET r == proc[p] IN
    /\ r.pc = "check"
    /\ Set(p, IF TrimSpace(r.config.CurrentVersion) = <<>>
              THEN Ret(r, Err("Config", 0, <<>>))
              ELSE [r EXCEPT !.pc = "gm_url"])
    /\ UNCHANGED <<exe, tmp, wire, goos, goarch, server>>

\* CheckForAvailableUpdate after GetManifest returned the manifest
CheckCompare(p) ==
    LET r == proc[p] IN
    /\ r.pc = "check_cmp"
    /\ Set(p, IF VersionsDiffer(r.config.CurrentVersion, r.manifest.Version)
              THEN [r EXCEPT !.pc = "done", !.avail = TRUE,
                             !.newVersion = TrimSpace(r.manifest.Version)]
              ELSE [r EXCEPT !.pc = "done"])
    /\ UNCHANGED <<exe, tmp, wire, goos, goarch, server>>

(***************************************************************************)
(* Update.                                                                 *)
(***************************************************************************)
\* Update: manifest.GetDownloadInfo() and the return on its error
UpdateResolve(p) ==
    LET r == proc[p]
        i == GetDownloadInfo(r.manifest, goos, goarch) IN
    /\ r.pc = "gdi"
    /\ Set(p, IF i.err # Nil THEN Ret(r, i.err)
              ELSE [r EXCEPT !.pc = "dispatch", !.info = i])
    /\ UNCHANGED <<exe, tmp, wire, goos, goarch, server>>

\* Update: the names are stored in the Updater and the download is chosen;
\* the manifest is not used after this point
UpdateDispatch(p) ==
    LET r == proc[p] IN
    /\ r.pc = "dispatch"
    /\ Set(p, [r EXCEPT !.archiveName = r.info.archiveName,
                        !.binaryName = r.info.binaryName,
                        !.manifest = NoManifest,
                        !.info = DownloadInfo(<<>>, <<>>, Nil),
                        !.pc = IF r.info.archiveName # <<>>
                               THEN "da_url" ELSE "db_url"])
    /\ UNCHANGED <<exe, tmp, wire, goos, goarch, server>>

(***************************************************************************)
(* The filesystem calls.                                                   *)
(***************************************************************************)
\* uuid.NewString(): the next name of the temp directory, no file behind it
NewName == Len(tmp) + 1

\* calls that go through whether or not the path names a file
FileExistsAlways(f) == TRUE

\* os.Rename, os.Chmod and os.Remove fail when their (first) path names no
\* file
FileExists(f) == f.exists

\* a rename to one temp name for all invocations instead of a fresh uuid
RenameAwayFixedName(e, t, dst) == [exe |-> NoFile, tmp |-> [t EXCEPT ![1] = e]]

\* a rename that drops the file instead of moving it
RenameAwayLost(e, t, dst) == [exe |-> NoFile, tmp |-> t]

\* os.Rename(binaryPath, <temp name dst>), when it succeeds
RenameAway(e, t, dst) == [exe |-> NoFile, tmp |-> [t EXCEPT ![dst] = e]]

\* os.Rename(<temp name src>, binaryPath), when it succeeds
RenameInto(t, src) == [exe |-> t[src], tmp |-> [t EXCEPT ![src] = NoFile]]

\* a write that reports success although it wrote nothing
WriteFileShort(f, data, perm) ==
    { [ok |-> TRUE, file |-> File(<<>>, perm)], [ok |-> FALSE, file |-> f] }

\* os.WriteFile(name, data, perm) on the file f now behind the name: the call
\* succeeds, or fails before it opened the file, or fails after it wrote some
\* of the data (an existing file keeps its mode)
WriteFile(f, data, perm) ==
    LET mode == IF f.exists THEN f.mode ELSE perm IN
    { [ok |-> TRUE, file |-> File(data, mode)], [ok |-> FALSE, file |-> f] }
    \cup { [ok |-> FALSE, file |-> File(pre, mode)] : pre \in Prefixes(data) }

\* a chmod that sets the mode the file was written with
ChmodNoExec(f) == [f EXCEPT !.mode = WriteFilePerm]

\* os.Chmod(binaryPath, 0744), when it succeeds
Chmod(f) == [f EXCEPT !.mode = ChmodMode]

(***************************************************************************)
(* downloadBinary.                                                         *)
(***************************************************************************)
\* downloadBinary up to http.NewRequest; os.Executable() may fail
DownloadBinaryUrl(p) ==
    LET r == proc[p]
        e == RequestError(r.config.BaseUrl, r.binaryName) IN
    /\ r.pc = "db_url"
    /\ tmp' = Append(tmp, NoFile)
    /\ \E found \in BOOLEAN :
         Set(p, IF ~found THEN Ret(r, Err("Executable", 0, <<>>))
                ELSE IF e # Nil THEN Ret(r, e)
                ELSE [r EXCEPT !.pc = "db_do", !.kind = "binary",
                               !.tempFile = NewName,
                               !.url = JoinPath(r.config.BaseUrl, r.binaryName)])
    /\ UNCHANGED <<exe, wire, goos, goarch, server>>

\* downloadBinary from httpClient.Do to io.ReadAll
DownloadBinaryDo(p) ==
    LET r == proc[p] IN
    /\ r.pc = "db_do"
    /\ \E ans \in Offered(r) :
         LET d == AfterDo(r, ans) IN
         /\ wire' = Append(wire, Exchange(p, r, ans))
         /\ IF d.pc # "got" THEN Set(p, d)
            ELSE \E read \in BOOLEAN, body \in Serves(server).bodies :
                   Set(p, IF ~read THEN Ret(d, Err("Read", 0, <<>>))
                          ELSE [d EXCEPT !.pc = "db_rename",
                                         !.responseBody = body])
    /\ UNCHANGED <<exe, tmp, goos, goarch, server>>

\* err = os.Rename(binaryPath, tempFile)
DownloadBinaryRename(p) ==
    LET r == proc[p]
        fs == RenameAway(exe, tmp, r.tempFile) IN
    /\ r.pc = "db_rename"
    /\ \/ /\ FileExists(exe)
          /\ exe' = fs.exe
          /\ tmp' = fs.tmp
          /\ Set(p, [r EXCEPT !.pc = "db_write", !.renames = @ + 1])
       \/ /\ Set(p, Ret(r, LinkError(ExePath, TempPath(r.tempFile))))
          /\ UNCHANGED <<exe, tmp>>
    /\ UNCHANGED <<wire, goos, goarch, server>>

\* err = os.WriteFile(binaryPath, responseBody, 0644)
DownloadBinaryWrite(p) ==
    LET r == proc[p] IN
    /\ r.pc = "db_write"
    /\ \E w \in WriteFile(exe, r.responseBody, WriteFilePerm) :
         /\ exe' = w.file
         /\ Set(p, IF w.ok THEN [r EXCEPT !.pc = "db_chmod"]
                   ELSE Ret(r, PathError("Write", ExePath)))
    /\ UNCHANGED <<tmp, wire, goos, goarch, server>>

\* err = os.Chmod(binaryPath, 0744), and the return of downloadBinary
DownloadBinaryChmod(p) ==
    LET r == proc[p] IN
    /\ r.pc = "db_chmod"
    /\ \/ /\ FileExists(exe)
          /\ exe' = Chmod(exe)
          /\ Set(p, [r EXCEPT !.pc = "done"])
       \/ /\ Set(p, Ret(r, PathError("Chmod", ExePath)))
          /\ UNCHANGED exe
    /\ UNCHANGED <<tmp, wire, goos, goarch, server>>

(***************************************************************************)
(* downloadArchive.                                                        *)
(***************************************************************************)
\* downloadArchive up to http.NewRequest
DownloadArchiveUrl(p) ==
    LET r == proc[p]
        e == RequestError(r.config.BaseUrl, r.archiveName) IN
    /\ r.pc = "da_url"
    /\ tmp' = Append(tmp, NoFile)
    /\ Set(p, IF e # Nil THEN Ret(r, e)
              ELSE [r EXCEPT !.pc = "da_do", !.kind = "archive",
                             !.tempFile = NewName,
                             !.url = JoinPath(r.config.BaseUrl, r.archiveName)])
    /\ UNCHANGED <<exe, wire, goos, goarch, server>>

\* downloadArchive from httpClient.Do to io.ReadAll
DownloadArchiveDo(p) ==
    LET r == proc[p] IN
    /\ r.pc = "da_do"
    /\ \E ans \in Offered(r) :
         LET d == AfterDo(r, ans) IN
         /\ wire' = Append(wire, Exchange(p, r, ans))
         /\ IF d.pc # "got" THEN Set(p, d)
            ELSE \E read \in BOOLEAN, body \in Serves(server).archives :
                   Set(p, IF ~read THEN Ret(d, Err("Read", 0, <<>>))
                          ELSE [d EXCEPT !.pc = "da_write",
                                         !.responseBody = body])
    /\ UNCHANGED <<exe, tmp, goos, goarch, server>>

\* a choice of the extractor that compares the suffix as it is written
FormatOfCaseSensitive(archiveName) ==
    IF HasSuffix(archiveName, DotTarGz) THEN "tar"
    ELSE IF HasSuffix(archiveName, DotZip) THEN "zip"
    ELSE "none"

\* the extractor downloadArchive picks for an archive name
FormatOf(archiveName) ==
    IF HasSuffix(ToLower(archiveName), DotTarGz) THEN "tar"
    ELSE IF HasSuffix(ToLower(archiveName), DotZip) THEN "zip"
    ELSE "none"

\* err = os.WriteFile(tempFile, responseBody, 0644), and the choice of the
\* extractor by the suffix of the archive name
DownloadArchiveWrite(p) ==
    LET r == proc[p]
        f == FormatOf(r.archiveName) IN
    /\ r.pc = "da_write"
    /\ \E w \in WriteFile(tmp[r.tempFile], r.responseBody, WriteFilePerm) :
         /\ tmp' = [tmp EXCEPT ![r.tempFile] = w.file]
         /\ Set(p, IF ~w.ok
                   THEN Ret(r, PathError("Write", TempPath(r.tempFile)))
                   ELSE IF f = "none"
                   THEN Ret(r, Err("Unsupported", 0, r.archiveName))
                   ELSE [r EXCEPT !.pc = "x_open", !.format = f])
    /\ UNCHANGED <<exe, wire, goos, goarch, server>>

(***************************************************************************)
(* extractZip and extractTarball.  The two functions run the same steps;   *)
(* they differ in what follows the chmod (extractZip leaves its loop,      *)
(* extractTarball leaves only its switch and reads on) and in how they     *)
(* end (extractTarball removes the archive).                               *)
(***************************************************************************)
\* "Error extracting binary from %s. No binary matched the name %s"
NotFoundError(archiveName, binaryName) ==
    Err("NotFound", 0, archiveName \o <<" ">> \o binaryName)

\* os.Executable(), then zip.OpenReader(src) / os.Open(src), gzip.NewReader
\* and tar.NewReader
ExtractOpen(p, format) ==
    LET r == proc[p]
        src == tmp[r.tempFile] IN
    /\ r.pc = "x_open" /\ r.format = format
    /\ \E found \in BOOLEAN, opened \in BOOLEAN :
         Set(p, IF ~found THEN Ret(r, Err("Executable", 0, <<>>))
                ELSE IF ~opened \/ ~src.exists \/ ~Readable(src.data)
                THEN Ret(r, PathError("ArchiveOpen", TempPath(r.tempFile)))
                ELSE [r EXCEPT !.pc = "x_entry", !.entries = src.data,
                               !.idx = 1, !.created = FALSE])
    /\ UNCHANGED <<exe, tmp, wire, goos, goarch, server>>

\* whether the loop body takes the entry for the binary
Matches(entry, binaryName) == Base(entry.Name) = binaryName

\* a type test that lets everything but a directory through
IsRegularOrLink(entry) == entry.Type # "dir"

\* f.FileInfo().Mode().IsRegular() / header.Typeflag = tar.TypeReg
IsRegular(entry) == entry.Type = "reg"

\* one turn of the loop up to os.Create: f.Open() / tarReader.Next(), the
\* comparison of the base name and the test of the entry's type
ExtractEntry(p, format) ==
    LET r == proc[p] IN
    /\ r.pc = "x_entry" /\ r.format = format
    /\ IF r.idx > Len(r.entries)
       THEN /\ Set(p, [r EXCEPT !.pc = "x_end"])
            /\ UNCHANGED tmp
       ELSE IF r.entries[r.idx] = BadEntry
       THEN /\ Set(p, Ret(r, Err("ArchiveRead", 0, <<>>)))
            /\ UNCHANGED tmp
       ELSE IF ~Matches(EntryOf(r.entries[r.idx]), r.binaryName)
       THEN /\ Set(p, [r EXCEPT !.idx = @ + 1])
            /\ UNCHANGED tmp
       ELSE /\ tmp' = tmp \o <<NoFile, NoFile>>
            /\ Set(p, IF IsRegular(EntryOf(r.entries[r.idx]))
                      THEN [r EXCEPT !.pc = "x_create", !.path = NewName,
                                     !.tempPath = NewName + 1]
                      ELSE [r EXCEPT !.idx = @ + 1, !.path = NewName,
                                     !.tempPath = NewName + 1])
    /\ UNCHANGED <<exe, wire, goos, goarch, server>>

\* file, err := os.Create(path)
ExtractCreate(p, format) ==
    LET r == proc[p] IN
    /\ r.pc = "x_create" /\ r.format = format
    /\ \/ /\ tmp' = [tmp EXCEPT ![r.path] = File(<<>>, CreatePerm)]
          /\ Set(p, [r EXCEPT !.pc = "x_copy"])
       \/ /\ Set(p, Ret(r, PathError("Create", TempPath(r.path))))
          /\ UNCHANGED tmp
    /\ UNCHANGED <<exe, wire, goos, goarch, server>>

\* io.Copy of the entry into the file, and the Close of the file: a copy that
\* fails leaves a prefix, a Close that fails leaves all of it
ExtractCopy(p, format) ==
    LET r == proc[p]
        body == EntryOf(r.entries[r.idx]).Body IN
    /\ r.pc = "x_copy" /\ r.format = format
    /\ \E w \in WriteFile(tmp[r.path], body, CreatePerm) :
         /\ w.file.exists
         /\ tmp' = [tmp EXCEPT ![r.path] = w.file]
         /\ Set(p, IF w.ok THEN [r EXCEPT !.pc = "x_rename"]
                   ELSE Ret(r, PathError("Copy", TempPath(r.path))))
    /\ UNCHANGED <<exe, wire, goos, goarch, server>>

\* err = os.Rename(binaryPath, tempPath)
ExtractRename(p, format) ==
    LET r == proc[p]
        fs == RenameAway(exe, tmp, r.tempPath) IN
    /\ r.pc = "x_rename" /\ r.format = format
    /\ \/ /\ FileExists(exe)
          /\ exe' = fs.exe
          /\ tmp' = fs.tmp
          /\ Set(p, [r EXCEPT !.pc = "x_install", !.renames = @ + 1])
       \/ /\ Set(p, Ret(r, LinkError(ExePath, TempPath(r.tempPath))))
          /\ UNCHANGED <<exe, tmp>>
    /\ UNCHANGED <<wire, goos, goarch, server>>

\* err = os.Rename(path, binaryPath)
ExtractInstall(p, format) ==
    LET r == proc[p]
        fs == RenameInto(tmp, r.path) IN
    /\ r.pc = "x_install" /\ r.format = format
    /\ \/ /\ FileExists(tmp[r.path])
          /\ exe' = fs.exe
          /\ tmp' = fs.tmp
          /\ Set(p, [r EXCEPT !.pc = "x_chmod"])
       \/ /\ Set(p, Ret(r, LinkError(TempPath(r.path), ExePath)))
          /\ UNCHANGED <<exe, tmp>>
    /\ UNCHANGED <<wire, goos, goarch, server>>

\* where `break` takes the loop after the chmod: in extractZip out of the
\* for loop, in extractTarball out of the switch only, on to the next entry
AfterBreak(r) ==
    IF r.format = "zip" THEN [r EXCEPT !.pc = "x_end", !.created = TRUE]
    ELSE [r EXCEPT !.pc = "x_entry", !.created = TRUE, !.idx = @ + 1]

\* err = os.Chmod(binaryPath, 0744); created = true; break
ExtractChmod(p, format) ==
    LET r == proc[p] IN
    /\ r.pc = "x_chmod" /\ r.format = format
    /\ \/ /\ FileExists(exe)
          /\ exe' = Chmod(exe)
          /\ Set(p, AfterBreak(r))
       \/ /\ Set(p, Ret(r, PathError("Chmod", ExePath)))
          /\ UNCHANGED exe
    /\ UNCHANGED <<tmp, wire, goos, goarch, server>>

\* whether the function removes the archive before it returns nil
RemovesArchive(format) == format = "tar"

\* the end of the function: the not-found error, or (extractTarball)
\* os.Remove(src) and its error, or nil
ExtractEnd(p, format) ==
    LET r == proc[p] IN
    /\ r.pc = "x_end" /\ r.format = format
    /\ IF ~r.created
       THEN /\ Set(p, Ret(r, NotFoundError(r.archiveName, r.binaryName)))
            /\ UNCHANGED tmp
       ELSE IF ~RemovesArchive(format)
       THEN /\ Set(p, [r EXCEPT !.pc = "done"])
            /\ UNCHANGED tmp
       ELSE \/ /\ FileExists(tmp[r.tempFile])
               /\ tmp' = [tmp EXCEPT ![r.tempFile] = NoFile]
               /\ Set(p, [r EXCEPT !.pc = "done"])
            \/ /\ Set(p, Ret(r, PathError("Remove", TempPath(r.tempFile))))
               /\ UNCHANGED tmp
    /\ UNCHANGED <<exe, wire, goos, goarch, server>>

ZipOpen(p) == ExtractOpen(p, "zip")
ZipEntry(p) == ExtractEntry(p, "zip")
ZipCreate(p) == ExtractCreate(p, "zip")
ZipCopy(p) == ExtractCopy(p, "zip")
ZipRename(p) == ExtractRename(p, "zip")
ZipInstall(p) == ExtractInstall(p, "zip")
ZipChmod(p) == ExtractChmod(p, "zip")
ZipEnd(p) == ExtractEnd(p, "zip")

TarOpen(p) == ExtractOpen(p, "tar")
TarNext(p) == ExtractEntry(p, "tar")
TarCreate(p) == ExtractCreate(p, "tar")
TarCopy(p) == ExtractCopy(p, "tar")
TarRename(p) == ExtractRename(p, "tar")
TarInstall(p) == ExtractInstall(p, "tar")
TarChmod(p) == ExtractChmod(p, "tar")
TarEnd(p) == ExtractEnd(p, "tar")

(***************************************************************************)
(* The specification: one invocation, of CheckForAvailableUpdate or of     *)
(* Update, on one platform, against one server.                            *)
(***************************************************************************)
Next ==
    \/ \E p \in Procs : GetManifestUrl(p)
    \/ \E p \in Procs : GetManifestDo(p)
    \/ \E p \in Procs : CheckStart(p)
    \/ \E p \in Procs : CheckCompare(p)
    \/ \E p \in Procs : UpdateResolve(p)
    \/ \E p \in Procs : UpdateDispatch(p)
    \/ \E p \in Procs : DownloadBinaryUrl(p)
    \/ \E p \in Procs : DownloadBinaryDo(p)
    \/ \E p \in Procs : DownloadBinaryRename(p)
    \/ \E p \in Procs : DownloadBinaryWrite(p)
    \/ \E p \in Procs : DownloadBinaryChmod(p)
    \/ \E p \in Procs : DownloadArchiveUrl(p)
    \/ \E p \in Procs : DownloadArchiveDo(p)
    \/ \E p \in Procs : DownloadArchiveWrite(p)
    \/ \E p \in Procs : ZipOpen(p)
    \/ \E p \in Procs : ZipEntry(p)
    \/ \E p \in Procs : ZipCreate(p)
    \/ \E p \in Procs : ZipCopy(p)
    \/ \E p \in Procs : ZipRename(p)
    \/ \E p \in Procs : ZipInstall(p)
    \/ \E p \in Procs : ZipChmod(p)
    \/ \E p \in Procs : ZipEnd(p)
    \/ \E p \in Procs : TarOpen(p)
    \/ \E p \in Procs : TarNext(p)
    \/ \E p \in Procs : TarCreate(p)
    \/ \E p \in Procs : TarCopy(p)
    \/ \E p \in Procs : TarRename(p)
    \/ \E p \in Procs : TarInstall(p)
    \/ \E p \in Procs : TarChmod(p)
    \/ \E p \in Procs : TarEnd(p)

Spec == Init /\ [][Next]_vars

(***************************************************************************)
(* The second specification: one Update(), or two Update() invocations of  *)
(* two processes started from the same executable, against the "release"   *)
(* server on linux/amd64.  The steps of the two interleave freely; each    *)
(* filesystem call is one step (renames are atomic).                       *)
(***************************************************************************)
InitRace ==
    /\ exe = File(OldBin, OldMode)
    /\ tmp = <<>>
    /\ wire = <<>>
    /\ goos = Linux /\ goarch = Amd64
    /\ server = "release"
    /\ \E n \in 1..2 :
         proc = [ i \in 1..n |->
                    InitProc("Update",
                             Config(V1, Url(TRUE, "https", "h", <<>>))) ]

NextRace ==
    \/ \E p \in Procs : GetManifestUrl(p)
    \/ \E p \in Procs : GetManifestDo(p)
    \/ \E p \in Procs : UpdateResolve(p)
    \/ \E p \in Procs : UpdateDispatch(p)
    \/ \E p \in Procs : DownloadBinaryUrl(p)
    \/ \E p \in Procs : DownloadBinaryDo(p)
    \/ \E p \in Procs : DownloadBinaryRename(p)
    \/ \E p \in Procs : DownloadBinaryWrite(p)
    \/ \E p \in Procs : DownloadBinaryChmod(p)
    \/ \E p \in Procs : DownloadArchiveUrl(p)
    \/ \E p \in Procs : DownloadArchiveDo(p)
    \/ \E p \in Procs : DownloadArchiveWrite(p)
    \/ \E p \in Procs : ZipOpen(p)
    \/ \E p \in Procs : ZipEntry(p)
    \/ \E p \in Procs : ZipCreate(p)
    \/ \E p \in Procs : ZipCopy(p)
    \/ \E p \in Procs : ZipRename(p)
    \/ \E p \in Procs : ZipInstall(p)
    \/ \E p \in Procs : ZipChmod(p)
    \/ \E p \in Procs : ZipEnd(p)
    \/ \E p \in Procs : TarOpen(p)
    \/ \E p \in Procs : TarNext(p)
    \/ \E p \in Procs : TarCreate(p)
    \/ \E p \in Procs : TarCopy(p)
    \/ \E p \in Procs : TarRename(p)
    \/ \E p \in Procs : TarInstall(p)
    \/ \E p \in Procs : TarChmod(p)
    \/ \E p \in Procs : TarEnd(p)

SpecRace == InitRace /\ [][NextRace]_vars

(***************************************************************************)
(* Vocabulary of the properties.                                           *)
(***************************************************************************)
Updates == {p \in Procs : proc[p].op = "Update"}
Checks == {p \in Procs : proc[p].op = "Check"}

OrigFile == File(OldBin, OldMode)
OriginalAtExe == exe = OrigFile
OriginalInTemp == \E i \in DOMAIN tmp : tmp[i] = OrigFile

\* the positions of the regular entries of the downloaded archive whose base
\* name is the binary name, in container order
MatchIdx(r) ==
    { i \in 1..Len(r.responseBody) :
        /\ r.responseBody[i] \in EntryCodes \ {BadEntry}
        /\ Matches(EntryOf(r.responseBody[i]), r.binaryName)
        /\ IsRegular(EntryOf(r.responseBody[i])) }

FirstMatch(r) == CHOOSE i \in MatchIdx(r) : \A j \in MatchIdx(r) : i <= j

\* the complete new contents invocation r may install: the body of the bare
\* binary, or the body of a matching entry of the archive
NewContents(r) ==
    IF r.responseBody = <<>> THEN {}
    ELSE IF r.archiveName = <<>> THEN {r.responseBody}
    ELSE {EntryOf(r.responseBody[i]).Body : i \in MatchIdx(r)}

\* a complete file that can be run
Runnable(f, r) ==
    /\ f.exists
    /\ f.data \in NewContents(r) \cup {OldBin}
    /\ OwnerExec(f.mode)

\* the exchanges of invocation p for one kind of request
ExchangesOf(p, kind) ==
    {i \in DOMAIN wire : wire[i].by = p /\ wire[i].kind = kind}

(***************************************************************************)
(* C1.  In every state of an Update() invocation a complete executable is  *)
(* on disk: the complete pre-update binary is at the executable path or at *)
(* a temp path, or the complete new content is at the executable path.     *)
(***************************************************************************)
C1_ExecutableOnDisk ==
    \A p \in Updates :
        \/ OriginalAtExe
        \/ OriginalInTemp
        \/ exe.exists /\ exe.data \in NewContents(proc[p])

\* the write of the new content failed and left nothing at the executable
\* path: the original is at the temp path only
C1_Witness ==
    \E p \in Updates :
        /\ Done(p) /\ proc[p].err.kind = "Write"
        /\ ~exe.exists /\ OriginalInTemp

(***************************************************************************)
(* C2.  When Update() returns success, the executable path holds exactly   *)
(* the fetched binary, or the body of an entry extracted from the archive, *)
(* with the execute bit set, and a temp file holds the pre-update content. *)
(***************************************************************************)
C2_AtomicReplace ==
    \A p \in Updates :
        Succeeded(p) =>
            /\ exe.exists
            /\ exe.data \in NewContents(proc[p])
            /\ OwnerExec(exe.mode)
            /\ \E i \in DOMAIN tmp : tmp[i].exists /\ tmp[i].data = OldBin

\* a successful update from a tar.gz archive
C2_Witness ==
    \E p \in Updates :
        /\ Succeeded(p) /\ proc[p].format = "tar"
        /\ exe.data = BodyA

(***************************************************************************)
(* C3.  As claimed: once the executable was renamed away, Update() never   *)
(* returns with the executable path holding no runnable file.              *)
(***************************************************************************)
C3_RunnableAtExePath ==
    \A p \in Updates :
        Done(p) /\ proc[p].renames > 0 => Runnable(exe, proc[p])

(***************************************************************************)
(* C3, amended.  Once the executable was renamed away, Update() returns    *)
(* with a runnable file on disk: on success the complete new file, with    *)
(* the execute bit, at the executable path; on an error of a later step    *)
(* the executable path may hold no file, part of a file or a file without  *)
(* the execute bit, and the original, complete and with its mode, is at    *)
(* the temp path it was renamed to.                                        *)
(***************************************************************************)
C3_RunnableOnDisk ==
    \A p \in Updates :
        Done(p) /\ proc[p].renames > 0 =>
            /\ OriginalInTemp
            /\ proc[p].err = Nil =>
                 /\ Runnable(exe, proc[p])
                 /\ exe.data \in NewContents(proc[p])

\* the chmod failed: the new content is at the executable path without the
\* execute bit, the original is in the temp directory
C3_Witness ==
    \E p \in Updates :
        /\ Done(p) /\ proc[p].renames > 0 /\ proc[p].err.kind = "Chmod"
        /\ exe.exists /\ ~OwnerExec(exe.mode)
        /\ OriginalInTemp

(***************************************************************************)
(* C4.  As claimed: from an archive with more than one regular entry of    *)
(* the binary's name, a successful Update() installs the first of them,    *)
(* renames the executable once and reads no entry after the first match.   *)
(***************************************************************************)
C4_FirstMatchWins ==
    \A p \in Updates :
        Succeeded(p) /\ Cardinality(MatchIdx(proc[p])) > 1 =>
            /\ exe.data = EntryOf(proc[p].responseBody[FirstMatch(proc[p])]).Body
            /\ proc[p].renames = 1
            /\ proc[p].idx = FirstMatch(proc[p])

(***************************************************************************)
(* C5.  As claimed: whenever the manifest does not map the running         *)
(* platform, Update() fails with NotSupportedError{"<GOOS>/<GOARCH>"}.     *)
(***************************************************************************)
\* the os is absent from the os map, or its published label has no arch map,
\* or the arch is absent from that arch map
Unmapped(manifest, os, arch) ==
    \/ os \notin DOMAIN manifest.Os
    \/ manifest.Os[os] \notin DOMAIN manifest.Arch
    \/ arch \notin DOMAIN manifest.Arch[manifest.Os[os]]

\* Update() has returned from the resolution of a manifest it fetched
ResolutionFailed(p) ==
    /\ p \in Updates /\ Done(p)
    /\ proc[p].manifest # NoManifest

\* C5 as claimed, for every manifest
C5_NotSupportedAnyManifest ==
    \A p \in Procs :
        ResolutionFailed(p) /\ Unmapped(proc[p].manifest, goos, goarch) =>
            proc[p].err = NotSupportedError(goos \o <<"/">> \o goarch)

(***************************************************************************)
(* C5, amended.  Whenever the manifest names a binary (its binary template *)
(* is not blank) and does not map the running platform, Update() fails     *)
(* with NotSupportedError{"<GOOS>/<GOARCH>"}, built from the runtime       *)
(* identifiers, and returns that error unchanged.                          *)
(***************************************************************************)
C5_NotSupported ==
    \A p \in Procs :
        ( /\ ResolutionFailed(p)
          /\ TrimSpace(proc[p].manifest.Binary) # <<>>
          /\ Unmapped(proc[p].manifest, goos, goarch) )
        => proc[p].err = NotSupportedError(goos \o <<"/">> \o goarch)

\* the os is mapped, and its published label has no arch map
C5_Witness ==
    \E p \in Updates :
        /\ Done(p) /\ proc[p].err.kind = "NotSupported"
        /\ goos \in DOMAIN proc[p].manifest.Os
        /\ proc[p].manifest.Os[goos] \notin DOMAIN proc[p].manifest.Arch
        /\ goos \in DOMAIN proc[p].manifest.Arch

(***************************************************************************)
(* C6.  As claimed: when the manifest does not map the running platform,   *)
(* Update() sends exactly one HTTP request, the manifest fetch, and no     *)
(* artifact request, and touches neither the executable nor the temp       *)
(* directory.                                                              *)
(***************************************************************************)
NoFilesTouched ==
    /\ exe = OrigFile
    /\ \A i \in DOMAIN tmp : ~tmp[i].exists

\* C6 as claimed: one request in all
C6_OneRequestWhenUnmapped ==
    \A p \in Procs :
        ResolutionFailed(p) /\ Unmapped(proc[p].manifest, goos, goarch) =>
            /\ Len(wire) = 1
            /\ wire[1].kind = "manifest"
            /\ NoFilesTouched

(***************************************************************************)
(* C6, amended.  When the manifest does not map the running platform,      *)
(* Update() sends requests for the manifest fetch only: one GET, and one   *)
(* more for every redirect the HTTP client follows, the last of them       *)
(* answered 200; it sends no artifact request and touches neither the      *)
(* executable nor the temp directory.                                      *)
(***************************************************************************)
\* Update() holds a manifest it fetched, and it does not map the platform
HoldsUnmappedManifest(p) ==
    /\ p \in Updates
    /\ proc[p].manifest # NoManifest
    /\ Unmapped(proc[p].manifest, goos, goarch)

\* C6, amended: the requests of the manifest fetch, and nothing else
C6_ManifestFetchOnlyWhenUnmapped ==
    \A p \in Procs :
        HoldsUnmappedManifest(p) =>
            \* the resolution is the last step before the return
            /\ proc[p].pc \in {"gdi", "done"}
            /\ Len(wire) = 1 + proc[p].redirects
            /\ \A i \in DOMAIN wire :
                 /\ wire[i].kind = "manifest"
                 /\ IF i < Len(wire) THEN Followed(wire[i])
                    ELSE wire[i].code = 200
            /\ NoFilesTouched

\* an unmapped platform, after a manifest fetch the server redirected
C6_Witness ==
    \E p \in Procs :
        /\ ResolutionFailed(p) /\ Unmapped(proc[p].manifest, goos, goarch)
        /\ proc[p].err.kind = "NotSupported"
        /\ Len(wire) = 2

(***************************************************************************)
(* C7.  For a non-blank CurrentVersion and a manifest that was fetched,    *)
(* CheckForAvailableUpdate reports an update iff the trimmed versions      *)
(* differ as strings; it then returns the trimmed manifest version, and it *)
(* reports none when they differ in surrounding whitespace only.           *)
(***************************************************************************)
C7_UpdateIffVersionsDiffer ==
    \A p \in Checks :
        Succeeded(p) =>
            LET cur == TrimRight(TrimLeft(proc[p].config.CurrentVersion))
                man == TrimRight(TrimLeft(proc[p].manifest.Version)) IN
            /\ cur # <<>>
            /\ proc[p].avail <=> cur # man
            /\ proc[p].avail => proc[p].newVersion = man
            /\ ~proc[p].avail => proc[p].newVersion = <<>>

\* versions that differ in surrounding whitespace only: no update
C7_Witness ==
    \E p \in Checks :
        /\ Succeeded(p) /\ ~proc[p].avail
        /\ proc[p].config.CurrentVersion # proc[p].manifest.Version

(***************************************************************************)
(* C8.  As claimed: every HTTP request sent during CheckForAvailableUpdate *)
(* or Update() is a GET to an absolute https URL with a host; and a joined *)
(* URL of another scheme or without host fails the operation before any    *)
(* request, with the executable untouched.                                 *)
(***************************************************************************)
\* the URL every request of an invocation is joined from is no absolute
\* https URL
BadBaseUrl(u) == ~u.parses \/ u.scheme # "https" \/ u.host = ""

C8_RequestsAreHttps ==
    \A i \in DOMAIN wire :
        /\ wire[i].method = "GET"
        /\ wire[i].scheme = "https"
        /\ wire[i].host # ""

C8_BadUrlSendsNothing ==
    \A p \in Procs :
        BadBaseUrl(proc[p].config.BaseUrl) => wire = <<>> /\ NoFilesTouched

\* C8 as claimed: both halves
C8_HttpsOnly == C8_RequestsAreHttps /\ C8_BadUrlSendsNothing

(***************************************************************************)
(* C9.  As claimed: an answer with a status code other than 200, a 3xx     *)
(* included, fails the operation with an error carrying that code; the     *)
(* request is not repeated or re-targeted and the body is neither decoded  *)
(* nor installed.                                                          *)
(***************************************************************************)
\* exchange i was answered, and not with 200
NotOk(i) == wire[i].code # 0 /\ wire[i].code # 200

\* nothing of the answer to the request of kind k was used by p
BodyUnused(p, k) ==
    /\ k = "manifest" => proc[p].manifest = NoManifest /\ exe = OrigFile
    /\ k # "manifest" => proc[p].responseBody = <<>> /\ exe = OrigFile

\* C9 as claimed, for every answer that is not 200
C9_Non200Fails ==
    \A i \in DOMAIN wire :
        NotOk(i) =>
            /\ Done(wire[i].by)
            /\ proc[wire[i].by].err = Err("Status", wire[i].code, <<>>)
            /\ Cardinality(ExchangesOf(wire[i].by, wire[i].kind)) = 1
            /\ BodyUnused(wire[i].by, wire[i].kind)

(***************************************************************************)
(* C9, amended.  The HTTP client follows a 3xx answer that names a         *)
(* Location with a new GET to that location.  Every other answer with a    *)
(* status code other than 200 (a 3xx without Location included) fails the  *)
(* operation with an error carrying that code; no request follows it, and  *)
(* the body is neither decoded as a manifest nor installed as a binary.    *)
(***************************************************************************)
C9_FinalNon200Fails ==
    \A i \in DOMAIN wire :
        /\ NotOk(i) /\ Followed(wire[i]) =>
             /\ i < Len(wire) \/ ~Done(wire[i].by)
             /\ i < Len(wire) =>
                  /\ wire[i + 1].kind = wire[i].kind
                  /\ wire[i + 1].method = "GET"
                  /\ wire[i + 1].scheme = wire[i].loc
        /\ NotOk(i) /\ ~Followed(wire[i]) =>
             /\ i = Len(wire)
             /\ Done(wire[i].by)
             /\ proc[wire[i].by].err = Err("Status", wire[i].code, <<>>)
             /\ BodyUnused(wire[i].by, wire[i].kind)

\* a 302 that names no Location ends the artifact fetch with its code
C9_Witness ==
    \E i \in DOMAIN wire :
        /\ wire[i].code = 302 /\ ~Followed(wire[i])
        /\ wire[i].kind = "archive"
        /\ proc[wire[i].by].err.code = 302

(***************************************************************************)
(* C10.  As claimed: after Update() extracted and installed the binary     *)
(* from an archive, tar.gz or zip, the downloaded archive is gone from the *)
(* temp directory and the renamed original is kept.                        *)
(***************************************************************************)
C10_ArchiveRemoved ==
    \A p \in Updates :
        Succeeded(p) /\ proc[p].format \in {"zip", "tar"} =>
            /\ ~tmp[proc[p].tempFile].exists
            /\ OriginalInTemp

(***************************************************************************)
(* C11.                                                                    *)
(***************************************************************************)
\* every entry of the downloaded container can be read
EntriesReadable(r) ==
    /\ Readable(r.responseBody)
    /\ \A i \in 1..Len(r.responseBody) : r.responseBody[i] # BadEntry

\* the container holds a regular file whose last path component is, letter
\* for letter, the binary name
HasRegularNamed(r) ==
    \E i \in 1..Len(r.responseBody) :
        /\ r.responseBody[i] \in EntryCodes \ {BadEntry}
        /\ LET e == EntryOf(r.responseBody[i]) IN
           /\ e.Type = "reg"
           /\ e.Name # <<>>
           /\ e.Name[Len(e.Name)] = r.binaryName

\* C11: an extraction (zip or tar.gz) that opened its container ends with the
\* binary-not-found error exactly when every entry was readable and none is a
\* regular file whose base name equals the binary name; the error names the
\* archive and the binary, and the executable was neither renamed nor changed
C11_NotFoundIff ==
    \A p \in Updates :
        LET r == proc[p] IN
        /\ (Done(p) /\ r.idx > 0) =>
             ((r.err.kind = "NotFound")
                <=> (EntriesReadable(r) /\ ~HasRegularNamed(r)))
        /\ (r.err.kind = "NotFound") =>
             /\ r.idx > 0
             /\ r.err.info = r.archiveName \o <<" ">> \o r.binaryName
             /\ r.renames = 0
             /\ exe = OrigFile

\* a tar.gz that holds a symlink with the binary's name ended with the error
C11_Witness ==
    \E p \in Updates :
        LET r == proc[p] IN
        /\ r.err.kind = "NotFound"
        /\ r.format = "tar"
        /\ \E i \in 1..Len(r.responseBody) :
             /\ EntryOf(r.responseBody[i]).Type = "symlink"
             /\ EntryOf(r.responseBody[i]).Name = <<r.binaryName>>

(***************************************************************************)
(* C12.                                                                    *)
(***************************************************************************)
\* the paths the error of an invocation names
PathsNamed(r) == { r.err.info[i] : i \in DOMAIN r.err.info }

\* C12: an Update() that fails at the rename of the executable names the
\* executable path in its error, and one that fails after that rename (at the
\* write, the second rename, the chmod) names the temp path that now holds
\* the original binary
C12_ErrorNamesRollbackPath ==
    \A p \in Updates :
        LET r == proc[p] IN
        (Done(p) /\ r.err # Nil) =>
            /\ (r.err.kind = "Rename") => ExePath \in PathsNamed(r)
            /\ (r.renames > 0) =>
                 \E i \in DOMAIN tmp :
                    tmp[i] = OrigFile /\ TempPath(i) \in PathsNamed(r)

(***************************************************************************)
(* C13.                                                                    *)
(***************************************************************************)
DirectSteps == {"db_url", "db_do", "db_rename", "db_write", "db_chmod"}
ArchiveSteps ==
    {"da_url", "da_do", "da_write", "x_open", "x_entry", "x_create", "x_copy",
     "x_rename", "x_install", "x_chmod", "x_end"}

\* C13: whenever GetDownloadInfo returned no error the resolved binary name
\* is not empty, and Update() takes the direct-binary path exactly when the
\* resolved archive name is empty
C13_BinaryNameNonEmpty ==
    \A p \in Updates :
        LET r == proc[p] IN
        /\ (r.pc = "dispatch") => r.info.binaryName # <<>>
        /\ (r.pc \in DirectSteps) => (r.archiveName = <<>>)
        /\ (r.pc \in ArchiveSteps) => (r.archiveName # <<>>)

(***************************************************************************)
(* C14.  As claimed: the file the write step places at the executable path *)
(* has the owner's execute bit from the moment it is written.              *)
(***************************************************************************)
\* C14 (as claimed): whatever an invocation has put at the executable path
\* after renaming the old file away carries the owner's execute bit
C14_ExecFromWrite ==
    \A p \in Updates :
        (proc[p].renames > 0 /\ exe.exists) => OwnerExec(exe.mode)

\* C14 (amended): between the write step and the chmod the executable path
\* holds the complete new content without the owner's execute bit, with the
\* mode of os.WriteFile (direct) or of os.Create (zip, tar.gz); the bit is
\* set by the chmod alone, and is set whenever Update() returns success
C14_ExecOnlyByChmod ==
    \A p \in Updates :
        LET r == proc[p] IN
        /\ (r.pc = "db_chmod") =>
             /\ exe = File(r.responseBody, WriteFilePerm)
             /\ ~OwnerExec(exe.mode)
        /\ (r.pc = "x_chmod") =>
             /\ exe = File(EntryOf(r.entries[r.idx]).Body, CreatePerm)
             /\ ~OwnerExec(exe.mode)
        /\ Succeeded(p) => (exe.mode = ChmodMode /\ OwnerExec(exe.mode))

\* the direct path stands between os.WriteFile and os.Chmod
C14_Witness ==
    \E p \in Updates :
        /\ proc[p].pc = "db_chmod"
        /\ exe.exists /\ exe.data = proc[p].responseBody
        /\ exe.mode = Octal(6, 4, 4)

(***************************************************************************)
(* C15.  As claimed: every step of Update() runs at most once, with at     *)
(* most one manifest request and one artifact request.                     *)
(***************************************************************************)
ArtifactExchanges(p) == ExchangesOf(p, "binary") \cup ExchangesOf(p, "archive")
\* the exchanges that ended a fetch: their answer was not a redirect to follow
Final(S) == {i \in S : ~Followed(wire[i])}
AfterManifest200 ==
    {"gdi", "dispatch"} \cup DirectSteps \cup ArchiveSteps
AfterArtifact200 ==
    (DirectSteps \ {"db_url", "db_do"}) \cup (ArchiveSteps \ {"da_url", "da_do"})

\* the order of the steps: what an invocation holds at each position, the
\* first change of the executable path after the complete artifact (and the
\* complete copy of the entry), and no change of it before the rename
StepsInOrder(p) ==
    LET r == proc[p] IN
    /\ (r.pc \in AfterManifest200) =>
         \E i \in ExchangesOf(p, "manifest") : wire[i].code = 200
    /\ (ArtifactExchanges(p) # {}) =>
         \E i \in ExchangesOf(p, "manifest") :
            /\ wire[i].code = 200
            /\ \A j \in ArtifactExchanges(p) : i < j
    /\ (r.pc \in AfterArtifact200 \/ r.renames > 0) =>
         \E i \in ArtifactExchanges(p) : wire[i].code = 200
    /\ (r.pc \in {"x_rename", "x_install"}) =>
         tmp[r.path] = File(EntryOf(r.entries[r.idx]).Body, CreatePerm)
    /\ (r.renames = 0) => exe = OrigFile

C16_ErrorOnlyBeforeReplaced ==
    \A p \in Updates :
        (Done(p) /\ proc[p].created) => proc[p].err = Nil

(***************************************************************************)
(* C17.                                                                    *)
(***************************************************************************)
\* the suffixes of the archive name, letters of either case
EndsTarGz(name) ==
    HasSuffix(ToLower(name), <<".", "t", "a", "r", ".", "g", "z">>)
EndsZip(name) == HasSuffix(ToLower(name), <<".", "z", "i", "p">>)

\* the errors downloadArchive returns before it looks at the suffix
BeforeSuffixTest == {"Transport", "Status", "Read", "Write"}

\* C17: a downloaded archive goes to the tar extractor when its name ends in
\* .tar.gz and to the zip extractor when it ends in .zip, whatever the case of
\* the letters; with any other name Update() fails with an error that names
\* the archive, and the executable is neither renamed nor modified
C17_SuffixDispatch ==
    \A p \in Updates :
        LET r == proc[p]
            name == r.archiveName IN
        /\ (r.format = "tar") => EndsTarGz(name)
        /\ (r.format = "zip") => (EndsZip(name) /\ ~EndsTarGz(name))
        /\ (r.err.kind = "Unsupported") =>
             /\ name # <<>> /\ ~EndsTarGz(name) /\ ~EndsZip(name)
             /\ r.err.info = name
             /\ r.renames = 0 /\ exe = OrigFile
        /\ (Done(p) /\ r.kind = "archive"
              /\ r.err.kind \notin BeforeSuffixTest) =>
             IF EndsTarGz(name) \/ EndsZip(name)
             THEN r.format # "none"
             ELSE r.err.kind = "Unsupported"

\* the archive a.ZIP went through the zip extractor
C17_Witness ==
    \E p \in Updates :
        /\ Succeeded(p)
        /\ proc[p].format = "zip"
        /\ proc[p].archiveName = <<"a", ".", "Z", "I", "P">>

(***************************************************************************)
(* C18.                                                                    *)
(***************************************************************************)
\* the values the claim gives the four template variables
ClaimedVariables(manifest) ==
    LET label == manifest.Os[goos] IN
    [ Os         |-> label,
      Arch       |-> manifest.Arch[label][goarch],
      ArchiveExt |-> IF goos = <<"w", "i", "n", "d", "o", "w", "s">>
                     THEN <<".", "z", "i", "p">>
                     ELSE <<".", "t", "a", "r", ".", "g", "z">>,
      Ext        |-> IF goos = <<"w", "i", "n", "d", "o", "w", "s">>
                     THEN <<".", "e", "x", "e">>
                     ELSE <<>> ]

\* C18: when GetDownloadInfo returned names, the manifest maps the running
\* platform, and the names are the manifest's templates rendered with
\* Os = osMap[GOOS], Arch = archMap[Os][GOARCH] (looked up under the
\* published label), ArchiveExt/Ext = .zip/.exe on windows and .tar.gz/""
\* elsewhere
C18_TemplateVariables ==
    \A p \in Updates :
        LET r == proc[p]
            m == r.manifest IN
        (r.pc = "dispatch") =>
            /\ goos \in DOMAIN m.Os
            /\ m.Os[goos] \in DOMAIN m.Arch
            /\ goarch \in DOMAIN m.Arch[m.Os[goos]]
            /\ r.info.binaryName = Render(m.Binary, ClaimedVariables(m))
            /\ (TrimSpace(m.Archive) # <<>>) =>
                 r.info.archiveName = Render(m.Archive, ClaimedVariables(m))

\* names resolved from an archive template that uses Os and Arch, with an arch
\* map that has another label under the runtime name of the os
C18_Witness ==
    \E p \in Updates :
        LET r == proc[p]
            m == r.manifest IN
        /\ r.pc = "dispatch"
        /\ m.Archive = <<"{{.Os}}", "{{.Arch}}", "{{.ArchiveExt}}">>
        /\ goos \in DOMAIN m.Arch
        /\ goarch \in DOMAIN m.Arch[goos]
        /\ m.Arch[goos][goarch] # m.Arch[m.Os[goos]][goarch]
        /\ r.info.archiveName = <<"X", "a", "6", "4", ".", "t", "a", "r", ".", "g", "z">>

(***************************************************************************)
(* C19, C20: two Update() invocations on one executable path (SpecRace).   *)
(***************************************************************************)
RenameSteps == {"db_rename", "x_rename"}
ChmodSteps == {"db_chmod", "x_chmod"}

\* invocation p is about to rename or chmod the executable and no file is at
\* the executable path
FindsNoFile(p) ==
    /\ proc[p].pc \in RenameSteps \cup ChmodSteps
    /\ ~exe.exists

\* another invocation renamed the executable away and has not put a file
\* back since
MovedAwayByOther(p) ==
    \E q \in Procs \ {p} :
        /\ proc[q].renames > 0
        /\ proc[q].pc \in {"db_write", "x_install", "done"}

\* C19: an invocation can be at its rename or chmod step with no file at the
\* executable path only when a second invocation moved the file away, never
\* when it runs alone; and its step then fails: Update() returns the error of
\* the rename or the chmod
C19_RaceFails ==
    /\ [](\A p \in Procs :
            FindsNoFile(p) => (Len(proc) = 2 /\ MovedAwayByOther(p)))
    /\ [][\A p \in Procs :
            (FindsNoFile(p) /\ proc'[p] # proc[p]) =>
                /\ proc'[p].pc = "done"
                /\ proc'[p].err.kind =
                     IF proc[p].pc \in RenameSteps THEN "Rename" ELSE "Chmod"
                /\ exe' = exe]_vars

\* invocation 1 failed at its rename while invocation 2 stands between its
\* own rename and its write, the executable path empty, the original binary
\* at the temp path of invocation 2
C19_Witness ==
    /\ Len(proc) = 2
    /\ Done(1) /\ proc[1].err.kind = "Rename" /\ proc[1].renames = 0
    /\ proc[2].pc = "db_write" /\ proc[2].renames = 1
    /\ ~exe.exists
    /\ tmp[proc[2].tempFile] = OrigFile

\* C20: under every interleaving of two Update() invocations the complete
\* pre-update executable, with its mode, is at the executable path or at one
\* of the temp paths
C20_OriginalNeverLost == OriginalAtExe \/ OriginalInTemp

\* both invocations renamed a file away from the executable path and ended,
\* one by the direct path and one from an archive; the original binary is at
\* the temp path of the one that renamed first
C20_Witness ==
    /\ Len(proc) = 2
    /\ \A p \in Procs : Done(p) /\ proc[p].renames > 0
    /\ \E p, q \in Procs : proc[p].format = "none" /\ proc[q].format # "none"
    /\ ~OriginalAtExe /\ OriginalInTemp

====
